---- MODULE Spec2Model ----
(***************************************************************************)
(* The airdrop_registry Anchor program                                     *)
(* (src/on-chain/programs/airdrop_registry/src/lib.rs) as a state machine. *)
(*                                                                         *)
(* The state is the set of program-derived accounts the program owns: one  *)
(* Registry per authority, one SafetyReport per (token_mint, authority),   *)
(* the SubscriptionConfig singleton and one Subscription per user,         *)
(* together with the lamport balances moved by the system transfer and the *)
(* cluster clock.  Every instruction is one action: the account checks     *)
(* generated by #[derive(Accounts)] followed by the handler body.  A       *)
(* failed instruction is rolled back by the runtime as a whole, so it      *)
(* changes nothing but `last`, the outcome the caller observes.            *)
(***************************************************************************)
EXTENDS Integers, Sequences, FiniteSets, TLC

\* ------------------------------------------------------------------------
\* Bounds of the model
\* ------------------------------------------------------------------------

\* u64::MAX, scaled down: the u64 fields live in 0..MaxU64.
MaxU64 == 3
\* i64::MAX, scaled down: the i64 fields live in MinI64..MaxI64.
MaxI64 == 3
\* The clock runs from 0 to MaxTime.
MaxTime == 1
\* Lamports every key holds initially.
InitLamports == 1

MinI64 == 0 - MaxI64 - 1

\* Public keys: signers, treasuries, admins, users, authorities.
Keys == {"K1", "K2"}
\* Token mints reported on.
Mints == {"M1", "M2"}

\* The limits of submit_report / update_report.
MaxRiskScore == 100
MaxRiskLevel == 2
MaxProtocolNameLen == 32

\* A String of n bytes.
Name(n) == [i \in 1..n |-> "a"]

\* (protocol_name, risk_score, risk_level, flags_count) arguments tried: two
\* valid ones (one of them on every limit), and one beyond each limit.
ReportArgs ==
    { << Name(MaxProtocolNameLen), MaxRiskScore, MaxRiskLevel, 0 >>,
      << Name(0), 0, 0, 255 >>,
      << Name(MaxProtocolNameLen), MaxRiskScore + 1, MaxRiskLevel, 0 >>,
      << Name(MaxProtocolNameLen), MaxRiskScore, MaxRiskLevel + 1, 0 >>,
      << Name(MaxProtocolNameLen + 1), MaxRiskScore, MaxRiskLevel, 0 >> }

\* (basic, pro, alpha) price tables passed to initialize_subscription_config
\* and update_pricing: every tier has its own price, every tier's price
\* differs between the two tables, and the first table has a price (0) that
\* the second has for no tier.
PriceTables == { << 0, 1, 2 >>, << 1, 2, 3 >> }
\* subscription_duration values passed to initialize_subscription_config
\* (an i64: nothing in the program keeps it positive).
Durations == { -1, 0, 1 }
\* u8 tier arguments tried (0 and 4 are outside 1..3).
TierArgs == { 0, 1, 2, 3, 4 }
\* u8 required_tier argument of the verify_subscription calls made: met by
\* the tiers 2 and 3, not by tier 1.
RequiredTiers == { 2 }

\* Option<T>: None is the empty sequence, Some(x) the one-element sequence.
None == << >>
Some(x) == << x >>
unwrap(o) == o[1]

\* u64::wrapping_add in place of checked_add.
wrapping_add_u64(a, b) == Some((a + b) % (MaxU64 + 1))

\* u64::checked_add
checked_add_u64(a, b) == IF a + b <= MaxU64 THEN Some(a + b) ELSE None
\* i64::checked_add
checked_add_i64(a, b) ==
    IF a + b <= MaxI64 /\ a + b >= MinI64 THEN Some(a + b) ELSE None

\* ------------------------------------------------------------------------
\* State
\* ------------------------------------------------------------------------
VARIABLES
    registry,             \* authority key -> Registry account
    safety_report,        \* (token mint, authority key) -> SafetyReport account
    subscription_config,  \* the SubscriptionConfig singleton account
    subscription,         \* user key -> Subscription account
    lamports,             \* key -> balance
    now,                  \* Clock::get()?.unix_timestamp
    last,                 \* the last instruction: name, accounts, arguments, outcome
    payments,             \* history: sum of the amounts of the successful transfers
    paid_to,              \* history: key -> amount received through the transfers
    paid_by,              \* history: key -> amount sent through the transfers
    subscribed,           \* history: the users whose subscribe succeeded
    submissions           \* history: authority key -> successful submit_report calls

registryVars == << registry, safety_report, submissions >>
subscriptionVars ==
    << subscription_config, subscription, lamports, payments, paid_to, paid_by,
       subscribed >>
vars == << registryVars, subscriptionVars, now, last >>

\* An account that was never created (no data).
NoRegistry == [exists |-> FALSE, authority |-> "", total_reports |-> 0]

NoSafetyReport ==
    [exists |-> FALSE, authority |-> "", token_mint |-> "", risk_score |-> 0,
     risk_level |-> 0, flags_count |-> 0, protocol_name |-> << >>, timestamp |-> 0]

NoSubscriptionConfig ==
    [exists |-> FALSE, admin |-> "", treasury |-> "", basic_price |-> 0,
     pro_price |-> 0, alpha_price |-> 0, subscription_duration |-> 0,
     total_subscribers |-> 0, total_revenue |-> 0]

NoSubscription ==
    [exists |-> FALSE, user |-> "", tier |-> 0, expires_at |-> 0,
     created_at |-> 0, total_paid |-> 0]

\* `account` is the key whose program-derived account was passed where the
\* instruction takes an existing Subscription / Registry / SafetyReport.
\* Of a failed instruction only the name and the error are recorded
\* (verify_subscription, which writes nothing, keeps its arguments).
NoInstruction ==
    [op |-> "none", result |-> "Ok", signer |-> "", account |-> "",
     treasury |-> "", tier |-> 0, token_mint |-> "", report |-> << >>]

Init ==
    /\ registry = [k \in Keys |-> NoRegistry]
    /\ safety_report = [r \in Mints \X Keys |-> NoSafetyReport]
    /\ submissions = [k \in Keys |-> 0]
    /\ subscription_config = NoSubscriptionConfig
    /\ subscription = [k \in Keys |-> NoSubscription]
    /\ lamports = [k \in Keys |-> InitLamports]
    /\ now = 0
    /\ last = NoInstruction
    /\ payments = 0
    /\ paid_to = [k \in Keys |-> 0]
    /\ paid_by = [k \in Keys |-> 0]
    /\ subscribed = {}

\* ------------------------------------------------------------------------
\* Account constraints
\* ------------------------------------------------------------------------

\* #[account(init, ...)]: the system program creates the account, which it
\* refuses when the address is already in use.
\* init_if_needed in place of init.
account_init_if_needed(account) == TRUE

account_init(account) == ~account.exists

\* ------------------------------------------------------------------------
\* initialize_registry
\* ------------------------------------------------------------------------

\* The outcome of a registry instruction as the caller sees it.
ReportOutcome(op, result, authority, account, token_mint, report) ==
    IF result = "Ok"
    THEN [NoInstruction EXCEPT !.op = op, !.signer = authority, !.account = account,
                               !.token_mint = token_mint, !.report = report]
    ELSE [NoInstruction EXCEPT !.op = op, !.result = result]

\* The transaction is rolled back: no account and no balance changes.
RolledBack == UNCHANGED << registryVars, subscriptionVars, now >>

initialize_registry_result(authority) ==
    \* #[account(init, seeds = [b"registry", authority.key().as_ref()], bump)]
    IF ~account_init(registry[authority]) THEN "AlreadyExists" ELSE "Ok"

initialize_registry(authority) ==
    LET result == initialize_registry_result(authority) IN
    /\ last' = ReportOutcome("initialize_registry", result, authority, authority, "", << >>)
    /\ IF result = "Ok"
       THEN /\ registry' = [registry EXCEPT ![authority] =
                 [exists |-> TRUE, authority |-> authority, total_reports |-> 0]]
            /\ UNCHANGED << safety_report, submissions, subscriptionVars, now >>
       ELSE RolledBack

\* ------------------------------------------------------------------------
\* submit_report
\* ------------------------------------------------------------------------

\* The risk_level require! left out.
validate_report_no_level(protocol_name, risk_score, risk_level) ==
    IF ~(risk_score <= MaxRiskScore) THEN "InvalidRiskScore"
    ELSE IF ~(Len(protocol_name) <= MaxProtocolNameLen) THEN "ProtocolNameTooLong"
    ELSE "Ok"

\* The three require!s of submit_report and update_report, in order.
validate_report(protocol_name, risk_score, risk_level) ==
    IF ~(risk_score <= MaxRiskScore) THEN "InvalidRiskScore"
    ELSE IF ~(risk_level <= MaxRiskLevel) THEN "InvalidRiskLevel"
    ELSE IF ~(Len(protocol_name) <= MaxProtocolNameLen) THEN "ProtocolNameTooLong"
    ELSE "Ok"

\* Account checks of SubmitReport, then the handler.  `account` is the key
\* whose Registry account the caller passed.
submit_report_result(authority, account, token_mint, protocol_name, risk_score, risk_level, flags_count) ==
    IF ~registry[account].exists THEN "NotFound"
    \* init, seeds = [b"safety_report", token_mint, authority]
    ELSE IF ~account_init(safety_report[<< token_mint, authority >>])
         THEN "AlreadyExists"
    \* seeds = [b"registry", authority.key().as_ref()]
    ELSE IF account # authority THEN "ConstraintSeeds"
    \* has_one = authority
    ELSE IF registry[account].authority # authority THEN "ConstraintHasOne"
    ELSE IF validate_report(protocol_name, risk_score, risk_level) # "Ok"
         THEN validate_report(protocol_name, risk_score, risk_level)
    ELSE IF checked_add_u64(registry[account].total_reports, 1) = None
         THEN "ArithmeticOverflow"
    ELSE "Ok"

\* The SafetyReport written by submit_report (lines 40-48).
submit_report_safety_report(authority, token_mint, protocol_name, risk_score, risk_level, flags_count) ==
    [exists |-> TRUE, authority |-> authority, token_mint |-> token_mint,
     risk_score |-> risk_score, risk_level |-> risk_level,
     flags_count |-> flags_count, protocol_name |-> protocol_name,
     timestamp |-> now]

\* The counter left as it was.
submit_report_registry_uncounted(reg) == reg

\* The Registry as submit_report rewrites it (lines 50-51).
submit_report_registry(reg) ==
    [reg EXCEPT !.total_reports = unwrap(checked_add_u64(reg.total_reports, 1))]

submit_report(authority, account, token_mint, protocol_name, risk_score, risk_level, flags_count) ==
    LET result == submit_report_result(authority, account, token_mint, protocol_name,
                                       risk_score, risk_level, flags_count)
    IN
    /\ last' = ReportOutcome("submit_report", result, authority, account, token_mint,
                   << protocol_name, risk_score, risk_level, flags_count >>)
    /\ IF result = "Ok"
       THEN /\ safety_report' = [safety_report EXCEPT ![<< token_mint, authority >>] =
                 submit_report_safety_report(authority, token_mint, protocol_name,
                                             risk_score, risk_level, flags_count)]
            /\ registry' = [registry EXCEPT ![account] = submit_report_registry(@)]
            /\ submissions' = [submissions EXCEPT ![authority] = @ + 1]
            /\ UNCHANGED << subscriptionVars, now >>
       ELSE RolledBack

\* ------------------------------------------------------------------------
\* update_report
\* ------------------------------------------------------------------------

\* Account checks of UpdateReport, then the handler.  `account` is the key
\* under which the SafetyReport account the caller passed was created.
update_report_result(authority, account, token_mint, protocol_name, risk_score, risk_level, flags_count) ==
    LET report == safety_report[<< token_mint, account >>] IN
    IF ~report.exists THEN "NotFound"
    \* seeds = [b"safety_report", safety_report.token_mint, authority]
    ELSE IF account # authority THEN "ConstraintSeeds"
    \* has_one = authority
    ELSE IF report.authority # authority THEN "ConstraintHasOne"
    ELSE validate_report(protocol_name, risk_score, risk_level)

\* The SafetyReport as update_report rewrites it (lines 70-75).
update_report_safety_report(report, protocol_name, risk_score, risk_level, flags_count) ==
    [report EXCEPT !.risk_score = risk_score, !.risk_level = risk_level,
                   !.flags_count = flags_count, !.protocol_name = protocol_name,
                   !.timestamp = now]

update_report(authority, account, token_mint, protocol_name, risk_score, risk_level, flags_count) ==
    LET result == update_report_result(authority, account, token_mint, protocol_name,
                                       risk_score, risk_level, flags_count)
    IN
    /\ last' = ReportOutcome("update_report", result, authority, account, token_mint,
                   << protocol_name, risk_score, risk_level, flags_count >>)
    /\ IF result = "Ok"
       THEN /\ safety_report' = [safety_report EXCEPT ![<< token_mint, account >>] =
                 update_report_safety_report(@, protocol_name, risk_score,
                                             risk_level, flags_count)]
            /\ UNCHANGED << registry, submissions, subscriptionVars, now >>
       ELSE RolledBack

\* ------------------------------------------------------------------------
\* Helpers shared by the subscription instructions
\* ------------------------------------------------------------------------

\* require!(tier >= 1 && tier <= 3, ErrorCode::InvalidTier)
valid_tier(tier) == tier >= 1 /\ tier <= 3

\* let price = match tier { 1 => basic_price, 2 => pro_price, 3 => alpha_price, .. }
tier_price(config, tier) ==
    CASE tier = 1 -> config.basic_price
      [] tier = 2 -> config.pro_price
      [] tier = 3 -> config.alpha_price
      [] OTHER -> 0

\* The treasury account left unconstrained.
treasury_unconstrained(config, treasury) == TRUE

\* constraint = treasury.key() == subscription_config.treasury @ InvalidTreasury
treasury_constraint(config, treasury) == treasury = config.treasury

\* system_instruction::transfer through invoke(..)?: the system program
\* refuses a debit the payer cannot cover (and a credit beyond u64).
transfer_ok(from, to, amount) ==
    /\ lamports[from] >= amount
    /\ (from = to \/ lamports[to] + amount <= MaxU64)

transfer(from, to, amount) ==
    IF from = to
    THEN lamports
    ELSE [lamports EXCEPT ![from] = @ - amount, ![to] = @ + amount]

\* The outcome of a subscription instruction as the caller sees it.
Outcome(op, result, signer, account, treasury, tier) ==
    IF result = "Ok"
    THEN [NoInstruction EXCEPT !.op = op, !.signer = signer, !.account = account,
                               !.treasury = treasury, !.tier = tier]
    ELSE [NoInstruction EXCEPT !.op = op, !.result = result]


\* ------------------------------------------------------------------------
\* initialize_subscription_config
\* ------------------------------------------------------------------------
\* The config account written without init: any call (re)initializes it.
initialize_subscription_config_result_reinit == "Ok"

initialize_subscription_config_result ==
    \* #[account(init, seeds = [b"subscription_config"], bump)]
    IF ~account_init(subscription_config) THEN "AlreadyExists" ELSE "Ok"

initialize_subscription_config(admin, treasury, basic_price_lamports, pro_price_lamports, alpha_price_lamports, subscription_duration) ==
    LET result == initialize_subscription_config_result IN
    /\ last' = Outcome("initialize_subscription_config", result, admin, "", treasury, 0)
    /\ IF result = "Ok"
       THEN /\ subscription_config' =
                 [exists |-> TRUE, admin |-> admin, treasury |-> treasury,
                  basic_price |-> basic_price_lamports,
                  pro_price |-> pro_price_lamports,
                  alpha_price |-> alpha_price_lamports,
                  subscription_duration |-> subscription_duration,
                  total_subscribers |-> 0, total_revenue |-> 0]
            /\ UNCHANGED << registryVars, subscription, lamports, now, payments, paid_to,
                         paid_by, subscribed >>
       ELSE RolledBack

\* ------------------------------------------------------------------------
\* subscribe
\* ------------------------------------------------------------------------

\* Account checks of Subscribe, then the handler, in the order they run.
subscribe_result(user, treasury, tier) ==
    LET config == subscription_config
        price == tier_price(config, tier)
    IN  IF ~config.exists THEN "NotFound"
        \* init, seeds = [b"subscription", user.key().as_ref()]
        ELSE IF ~account_init(subscription[user]) THEN "AlreadyExists"
        ELSE IF ~treasury_constraint(config, treasury) THEN "InvalidTreasury"
        ELSE IF ~valid_tier(tier) THEN "InvalidTier"
        \* match tier { .., _ => return Err(ErrorCode::InvalidTier.into()) }
        ELSE IF tier \notin {1, 2, 3} THEN "InvalidTier"
        ELSE IF ~transfer_ok(user, treasury, price) THEN "PaymentFailure"
        ELSE IF checked_add_i64(now, config.subscription_duration) = None
             THEN "ArithmeticOverflow"
        ELSE IF checked_add_u64(config.total_subscribers, 1) = None
             THEN "ArithmeticOverflow"
        ELSE IF checked_add_u64(config.total_revenue, price) = None
             THEN "ArithmeticOverflow"
        ELSE "Ok"

\* The expiry counted from 0 instead of from the clock.
subscribe_subscription_no_clock(user, tier, price) ==
    [exists |-> TRUE, user |-> user, tier |-> tier,
     expires_at |-> subscription_config.subscription_duration,
     created_at |-> now, total_paid |-> price]

\* The Subscription written by subscribe (lines 136-146).
subscribe_subscription(user, tier, price) ==
    [exists |-> TRUE, user |-> user, tier |-> tier,
     expires_at |-> unwrap(checked_add_i64(now, subscription_config.subscription_duration)),
     created_at |-> now, total_paid |-> price]

\* The config stats written by subscribe (lines 149-151).
subscribe_config(config, price) ==
    [config EXCEPT
        !.total_subscribers = unwrap(checked_add_u64(config.total_subscribers, 1)),
        !.total_revenue = unwrap(checked_add_u64(config.total_revenue, price))]

subscribe(user, treasury, tier) ==
    LET result == subscribe_result(user, treasury, tier)
        price == tier_price(subscription_config, tier)
    IN
    /\ last' = Outcome("subscribe", result, user, user, treasury, tier)
    /\ IF result = "Ok"
       THEN /\ lamports' = transfer(user, treasury, price)
            /\ subscription' =
                 [subscription EXCEPT ![user] = subscribe_subscription(user, tier, price)]
            /\ subscription_config' = subscribe_config(subscription_config, price)
            /\ payments' = payments + price
            /\ paid_to' = [paid_to EXCEPT ![treasury] = @ + price]
            /\ paid_by' = [paid_by EXCEPT ![user] = @ + price]
            /\ subscribed' = subscribed \cup {user}
            /\ UNCHANGED << registryVars, now >>
       ELSE RolledBack

\* ------------------------------------------------------------------------
\* renew_subscription
\* ------------------------------------------------------------------------

\* The remaining time discarded: every renewal restarts from the clock.
base_time_restart(expires_at, clock) == clock

\* let base_time = if subscription.expires_at > now { expires_at } else { now }
base_time(expires_at, clock) == IF expires_at > clock THEN expires_at ELSE clock

\* Neither the seeds nor has_one = user: any signer renews any Subscription.
renew_subscription_result_any_signer(user, account, treasury, tier) ==
    LET config == subscription_config
        sub == subscription[account]
        price == tier_price(config, tier)
    IN  IF ~sub.exists \/ ~config.exists THEN "NotFound"
        ELSE IF ~treasury_constraint(config, treasury) THEN "InvalidTreasury"
        ELSE IF ~valid_tier(tier) THEN "InvalidTier"
        ELSE IF ~transfer_ok(user, treasury, price) THEN "PaymentFailure"
        ELSE IF checked_add_i64(base_time(sub.expires_at, now),
                                config.subscription_duration) = None
             THEN "ArithmeticOverflow"
        ELSE IF checked_add_u64(sub.total_paid, price) = None
             THEN "ArithmeticOverflow"
        ELSE IF checked_add_u64(config.total_revenue, price) = None
             THEN "ArithmeticOverflow"
        ELSE "Ok"

\* Renewal refused once the Subscription has expired.
renew_subscription_result_active_only(user, account, treasury, tier) ==
    LET config == subscription_config
        sub == subscription[account]
        price == tier_price(config, tier)
    IN  IF ~sub.exists \/ ~config.exists THEN "NotFound"
        ELSE IF account # user THEN "ConstraintSeeds"
        ELSE IF sub.user # user THEN "Unauthorized"
        ELSE IF ~treasury_constraint(config, treasury) THEN "InvalidTreasury"
        ELSE IF ~valid_tier(tier) THEN "InvalidTier"
        ELSE IF sub.expires_at <= now THEN "InsufficientSubscription"
        ELSE IF ~transfer_ok(user, treasury, price) THEN "PaymentFailure"
        ELSE IF checked_add_i64(base_time(sub.expires_at, now),
                                config.subscription_duration) = None
             THEN "ArithmeticOverflow"
        ELSE IF checked_add_u64(sub.total_paid, price) = None
             THEN "ArithmeticOverflow"
        ELSE IF checked_add_u64(config.total_revenue, price) = None
             THEN "ArithmeticOverflow"
        ELSE "Ok"

\* Account checks of RenewSubscription, then the handler.  `account` is the
\* key whose Subscription account the caller passed.
renew_subscription_result(user, account, treasury, tier) ==
    LET config == subscription_config
        sub == subscription[account]
        price == tier_price(config, tier)
    IN  IF ~sub.exists \/ ~config.exists THEN "NotFound"
        \* seeds = [b"subscription", user.key().as_ref()]
        ELSE IF account # user THEN "ConstraintSeeds"
        \* has_one = user @ ErrorCode::Unauthorized
        ELSE IF sub.user # user THEN "Unauthorized"
        ELSE IF ~treasury_constraint(config, treasury) THEN "InvalidTreasury"
        ELSE IF ~valid_tier(tier) THEN "InvalidTier"
        \* match tier { .., _ => return Err(ErrorCode::InvalidTier.into()) }
        ELSE IF tier \notin {1, 2, 3} THEN "InvalidTier"
        ELSE IF ~transfer_ok(user, treasury, price) THEN "PaymentFailure"
        ELSE IF checked_add_i64(base_time(sub.expires_at, now),
                                config.subscription_duration) = None
             THEN "ArithmeticOverflow"
        ELSE IF checked_add_u64(sub.total_paid, price) = None
             THEN "ArithmeticOverflow"
        ELSE IF checked_add_u64(config.total_revenue, price) = None
             THEN "ArithmeticOverflow"
        ELSE "Ok"

\* total_paid grows by the price of the tier held so far, not of the tier
\* asked for.
renew_subscription_subscription_held_tier(sub, tier, price) ==
    [sub EXCEPT
        !.tier = tier,
        !.expires_at = unwrap(checked_add_i64(base_time(sub.expires_at, now),
                                  subscription_config.subscription_duration)),
        !.total_paid = (sub.total_paid + tier_price(subscription_config, sub.tier))
                          % (MaxU64 + 1)]

\* The tier held so far is kept: a renewal only buys time.
renew_subscription_subscription_keeps_tier(sub, tier, price) ==
    [sub EXCEPT
        !.expires_at = unwrap(checked_add_i64(base_time(sub.expires_at, now),
                                  subscription_config.subscription_duration)),
        !.total_paid = unwrap(checked_add_u64(sub.total_paid, price))]

\* total_paid left at what the subscribe paid.
renew_subscription_subscription_unpaid(sub, tier, price) ==
    [sub EXCEPT
        !.tier = tier,
        !.expires_at = unwrap(checked_add_i64(base_time(sub.expires_at, now),
                                  subscription_config.subscription_duration))]

\* The Subscription as renew_subscription rewrites it (lines 185-198).
renew_subscription_subscription(sub, tier, price) ==
    [sub EXCEPT
        !.tier = tier,
        !.expires_at = unwrap(checked_add_i64(base_time(sub.expires_at, now),
                                  subscription_config.subscription_duration)),
        !.total_paid = unwrap(checked_add_u64(sub.total_paid, price))]

\* The stats of subscribe copied into renew_subscription.
renew_subscription_config_as_subscribe(config, price) ==
    [config EXCEPT
        !.total_subscribers = unwrap(checked_add_u64(config.total_subscribers, 1)),
        !.total_revenue = unwrap(checked_add_u64(config.total_revenue, price))]

\* The config stats written by renew_subscription (lines 201-202).
renew_subscription_config(config, price) ==
    [config EXCEPT
        !.total_revenue = unwrap(checked_add_u64(config.total_revenue, price))]

renew_subscription(user, account, treasury, tier) ==
    LET result == renew_subscription_result(user, account, treasury, tier)
        price == tier_price(subscription_config, tier)
    IN
    /\ last' = Outcome("renew_subscription", result, user, account, treasury, tier)
    /\ IF result = "Ok"
       THEN /\ lamports' = transfer(user, treasury, price)
            /\ subscription' =
                 [subscription EXCEPT ![account] =
                     renew_subscription_subscription(subscription[account], tier, price)]
            /\ subscription_config' = renew_subscription_config(subscription_config, price)
            /\ payments' = payments + price
            /\ paid_to' = [paid_to EXCEPT ![treasury] = @ + price]
            /\ paid_by' = [paid_by EXCEPT ![user] = @ + price]
            /\ UNCHANGED << registryVars, now, subscribed >>
       ELSE RolledBack

\* ------------------------------------------------------------------------
\* verify_subscription
\* ------------------------------------------------------------------------

\* The expiry instant counted as active.
verified_inclusive(sub, required_tier, clock) ==
    LET is_active == sub.expires_at >= clock
        has_tier == sub.tier >= required_tier
    IN  is_active /\ has_tier

\* is_active && has_tier (lines 214-216)
verified(sub, required_tier, clock) ==
    LET is_active == sub.expires_at > clock
        has_tier == sub.tier >= required_tier
    IN  is_active /\ has_tier

verify_subscription_result(account, required_tier) ==
    IF ~subscription[account].exists THEN "NotFound"
    ELSE IF ~verified(subscription[account], required_tier, now)
         THEN "InsufficientSubscription"
    ELSE "Ok"

\* No signer: anybody may ask about anybody's Subscription.
verify_subscription(account, required_tier) ==
    /\ last' = [NoInstruction EXCEPT
                    !.op = "verify_subscription",
                    !.result = verify_subscription_result(account, required_tier),
                    !.account = account, !.tier = required_tier]
    /\ RolledBack

\* ------------------------------------------------------------------------
\* update_pricing
\* ------------------------------------------------------------------------
\* has_one = admin left out.
update_pricing_result_no_has_one(admin) ==
    IF ~subscription_config.exists THEN "NotFound" ELSE "Ok"

update_pricing_result(admin) ==
    IF ~subscription_config.exists THEN "NotFound"
    \* has_one = admin @ ErrorCode::Unauthorized
    ELSE IF subscription_config.admin # admin THEN "Unauthorized"
    ELSE "Ok"

\* The config rebuilt from the arguments, its stats starting over.
update_pricing_config_rebuilt(config, basic_price, pro_price, alpha_price) ==
    [config EXCEPT
        !.basic_price = basic_price,
        !.pro_price = pro_price,
        !.alpha_price = alpha_price,
        !.total_revenue = 0]

\* The config as update_pricing rewrites it (lines 233-235).
update_pricing_config(config, basic_price, pro_price, alpha_price) ==
    [config EXCEPT
        !.basic_price = basic_price,
        !.pro_price = pro_price,
        !.alpha_price = alpha_price]

update_pricing(admin, basic_price, pro_price, alpha_price) ==
    LET result == update_pricing_result(admin) IN
    /\ last' = Outcome("update_pricing", result, admin, "", "", 0)
    /\ IF result = "Ok"
       THEN /\ subscription_config' =
                 update_pricing_config(subscription_config, basic_price,
                                       pro_price, alpha_price)
            /\ UNCHANGED << registryVars, subscription, lamports, now, payments, paid_to,
                         paid_by, subscribed >>
       ELSE RolledBack

\* ------------------------------------------------------------------------
\* The clock
\* ------------------------------------------------------------------------
Tick ==
    /\ now < MaxTime
    /\ now' = now + 1
    /\ last' = [NoInstruction EXCEPT !.op = "tick"]
    /\ UNCHANGED << registryVars, subscriptionVars >>

\* ------------------------------------------------------------------------
\* Specification
\* ------------------------------------------------------------------------
NextRegistry ==
    \/ \E authority \in Keys : initialize_registry(authority)
    \/ \E authority \in Keys, account \in Keys, token_mint \in Mints, r \in ReportArgs :
          submit_report(authority, account, token_mint, r[1], r[2], r[3], r[4])
    \/ \E authority \in Keys, account \in Keys, token_mint \in Mints, r \in ReportArgs :
          update_report(authority, account, token_mint, r[1], r[2], r[3], r[4])
    \/ Tick

NextSubscription ==
    \/ \E admin \in Keys, treasury \in Keys, t \in PriceTables, d \in Durations :
          initialize_subscription_config(admin, treasury, t[1], t[2], t[3], d)
    \/ \E user \in Keys, treasury \in Keys, tier \in TierArgs :
          subscribe(user, treasury, tier)
    \/ \E user \in Keys, account \in Keys, treasury \in Keys, tier \in TierArgs :
          renew_subscription(user, account, treasury, tier)
    \/ \E account \in Keys, required_tier \in RequiredTiers :
          verify_subscription(account, required_tier)
    \/ \E admin \in Keys, t \in PriceTables :
          update_pricing(admin, t[1], t[2], t[3])
    \/ Tick

Next == NextRegistry \/ NextSubscription

\* The whole program.
Spec == Init /\ [][Next]_vars
\* The registry instructions alone, and the subscription instructions alone:
\* they share no account, only the clock.
SpecRegistry == Init /\ [][NextRegistry]_vars
SpecSubscription == Init /\ [][NextSubscription]_vars

\* No registry account / no subscription account has been created.
NoRegistryAccounts ==
    /\ \A k \in Keys : ~registry[k].exists
    /\ \A r \in Mints \X Keys : ~safety_report[r].exists
NoSubscriptionAccounts ==
    /\ ~subscription_config.exists
    /\ \A k \in Keys : ~subscription[k].exists

\* Both groups of instructions, in the behaviours where the accounts of at
\* most one group get created: every behaviour of SpecRegistry and every
\* behaviour of SpecSubscription, in one specification.
NextComponents ==
    \/ NoSubscriptionAccounts /\ NextRegistry
    \/ NoRegistryAccounts /\ NextSubscription
SpecComponents == Init /\ [][NextComponents]_vars

\* ------------------------------------------------------------------------
\* Properties
\* ------------------------------------------------------------------------

\* u8 arguments the properties quantify over.
U8Samples == { 0, 1, 2, 3, 4, 255 }

\* The accounts and balances: everything an instruction can write.
accounts == << registryVars, subscriptionVars >>

\* C1: a successful renew_subscription at clock time T2 leaves expires_at
\* equal to the prior expires_at plus subscription_duration when T2 is before
\* the prior expires_at, and to T2 plus subscription_duration otherwise.
C1_RenewalExpiryLaw ==
    [][ (last'.op = "renew_subscription" /\ last'.result = "Ok") =>
          LET prior == subscription[last'.account].expires_at
              duration == subscription_config.subscription_duration
          IN  subscription'[last'.account].expires_at =
                  (IF now < prior THEN prior + duration ELSE now + duration) ]_vars

\* A renewal made before the expiry has just extended the remaining time.
C1_Witness ==
    /\ last.op = "renew_subscription" /\ last.result = "Ok"
    /\ subscription[last.account].expires_at
          > now + subscription_config.subscription_duration
    /\ now > 0

\* C2: a successful subscribe(user, tier) at clock time T, for a user without
\* a Subscription, creates the Subscription with the requested tier,
\* expires_at = T + subscription_duration, created_at = T and total_paid = the
\* config price of the tier, and adds 1 to total_subscribers and that price to
\* total_revenue.
C2_SubscribeCreates ==
    [][ (last'.op = "subscribe" /\ last'.result = "Ok") =>
          LET user == last'.signer
              tier == last'.tier
              config == subscription_config
              price == IF tier = 1 THEN config.basic_price
                       ELSE IF tier = 2 THEN config.pro_price
                       ELSE config.alpha_price
          IN  /\ ~subscription[user].exists
              /\ subscription'[user] =
                    [exists |-> TRUE, user |-> user, tier |-> tier,
                     expires_at |-> now + config.subscription_duration,
                     created_at |-> now, total_paid |-> price]
              /\ subscription_config'.total_subscribers = config.total_subscribers + 1
              /\ subscription_config'.total_revenue = config.total_revenue + price ]_vars

\* A paid subscription was just created at a later clock time than 0.
C2_Witness ==
    /\ last.op = "subscribe" /\ last.result = "Ok"
    /\ subscription[last.signer].total_paid > 0
    /\ subscription[last.signer].created_at > 0

\* C3: verify_subscription(required_tier) on an existing Subscription succeeds
\* exactly when expires_at > now and tier >= required_tier, fails with
\* InsufficientSubscription otherwise (so also at now = expires_at), and
\* changes no record.
C3_VerifyIffActiveAndTier ==
    /\ [](\A account \in Keys, required_tier \in U8Samples :
            subscription[account].exists =>
              LET sub == subscription[account]
                  result == verify_subscription_result(account, required_tier)
              IN  /\ result = "Ok" <=>
                        (sub.expires_at > now /\ sub.tier >= required_tier)
                  /\ result # "Ok" => result = "InsufficientSubscription")
    /\ [](last.op = "verify_subscription" /\ subscription[last.account].exists =>
            /\ last.result = "Ok" <=>
                  /\ subscription[last.account].expires_at > now
                  /\ subscription[last.account].tier >= last.tier
            /\ last.result \in {"Ok", "InsufficientSubscription"})
    /\ [][ last'.op = "verify_subscription" => UNCHANGED << accounts, now >> ]_vars

\* A verification at the expiry instant, with a sufficient tier, was refused.
C3_Witness ==
    /\ last.op = "verify_subscription"
    /\ last.result = "InsufficientSubscription"
    /\ subscription[last.account].exists
    /\ subscription[last.account].expires_at = now
    /\ subscription[last.account].tier >= last.tier

\* C4: once the config exists, total_subscribers is the number of distinct
\* users whose subscribe succeeded, which is the number of Subscription
\* accounts, and total_revenue is the sum of the amounts paid by every
\* successful subscribe and renew_subscription.
C4_Reconciliation ==
    subscription_config.exists =>
        /\ subscription_config.total_subscribers = Cardinality(subscribed)
        /\ subscribed = { user \in Keys : subscription[user].exists }
        /\ subscription_config.total_revenue = payments

\* Two users have subscribed, and a paid renewal has just been counted.
C4_Witness ==
    /\ Cardinality(subscribed) = 2
    /\ last.op = "renew_subscription" /\ last.result = "Ok"
    /\ subscription[last.account].total_paid >= 2
    /\ payments > subscription[last.account].total_paid

\* C5 as stated: a subscribe or renew_subscription whose treasury is not the
\* config's treasury fails with InvalidTreasury (renew_subscription being
\* tried on an existing Subscription).
C5_WrongTreasuryIsInvalidTreasury ==
    subscription_config.exists =>
        \A user \in Keys, treasury \in Keys, tier \in U8Samples :
            treasury # subscription_config.treasury =>
                /\ subscribe_result(user, treasury, tier) = "InvalidTreasury"
                /\ subscription[user].exists =>
                      renew_subscription_result(user, user, treasury, tier)
                          = "InvalidTreasury"

\* C5, amended: a subscribe or renew_subscription whose treasury is not the
\* config's treasury fails, moves no funds and changes no record; the error is
\* InvalidTreasury unless an account check that runs before the treasury
\* constraint fails first (subscribe of a user who has a Subscription:
\* AlreadyExists; renew_subscription of a user who has none: not found).  So
\* every payment counted in total_revenue went to the config's treasury.
C5_PaymentsNotRedirected ==
    /\ [](subscription_config.exists =>
            \A user \in Keys, treasury \in Keys, tier \in U8Samples :
                treasury # subscription_config.treasury =>
                    /\ subscribe_result(user, treasury, tier) =
                          (IF subscription[user].exists
                           THEN "AlreadyExists" ELSE "InvalidTreasury")
                    /\ renew_subscription_result(user, user, treasury, tier) =
                          (IF subscription[user].exists
                           THEN "InvalidTreasury" ELSE "NotFound"))
    /\ [](\A key \in Keys :
            /\ paid_to[key] > 0 =>
                  subscription_config.exists /\ key = subscription_config.treasury
            /\ subscription_config.exists /\ key = subscription_config.treasury =>
                  paid_to[key] = subscription_config.total_revenue)
    /\ [][ (last'.op \in {"subscribe", "renew_subscription"} /\ last'.result # "Ok")
             => UNCHANGED << accounts, now >> ]_vars

\* A subscribe with a foreign treasury was refused after payments were made.
C5_Witness ==
    /\ last.op = "subscribe" /\ last.result = "InvalidTreasury"
    /\ payments > 0

\* C6: subscribe for a user who already has a Subscription, active or
\* expired, fails with AlreadyExists, transfers nothing and leaves the
\* Subscription, total_subscribers and total_revenue as they were.
C6_OneSubscriptionPerUser ==
    /\ [](\A user \in Keys, treasury \in Keys, tier \in U8Samples :
            subscription[user].exists =>
                subscribe_result(user, treasury, tier) = "AlreadyExists")
    /\ [][ (last'.op = "subscribe" /\ last'.result = "AlreadyExists")
             => UNCHANGED << accounts, now >> ]_vars
    /\ [][ \A user \in Keys :
             (last'.op = "subscribe" /\ subscription[user].exists)
                 => subscription'[user] = subscription[user] ]_vars

\* Every user has a Subscription, all of them expired, and a subscribe was
\* just refused.
C6_Witness ==
    /\ last.op = "subscribe" /\ last.result = "AlreadyExists"
    /\ \A user \in Keys :
          subscription[user].exists /\ subscription[user].expires_at <= now
    /\ payments > 0

\* C7: update_pricing by any identity other than the config's admin fails
\* with Unauthorized and leaves the three prices as they were; the prices of
\* the config change only in an update_pricing signed by the admin.
C7_UpdatePricingAdminOnly ==
    /\ [](subscription_config.exists =>
            \A admin \in Keys :
                admin # subscription_config.admin =>
                    update_pricing_result(admin) = "Unauthorized")
    /\ [][ (last'.op = "update_pricing" /\ last'.result # "Ok")
             => UNCHANGED << accounts, now >> ]_vars
    /\ [][ ( /\ subscription_config.exists
             /\ << subscription_config'.basic_price, subscription_config'.pro_price,
                   subscription_config'.alpha_price >>
                # << subscription_config.basic_price, subscription_config.pro_price,
                     subscription_config.alpha_price >> )
             => /\ last'.op = "update_pricing"
                /\ last'.result = "Ok"
                /\ last'.signer = subscription_config.admin ]_vars

\* An update_pricing was just refused as Unauthorized.
C7_Witness ==
    /\ last.op = "update_pricing" /\ last.result = "Unauthorized"
    /\ subscription_config.exists

\* C8: an addition to total_revenue or total_paid that would leave the u64
\* range makes the instruction fail with ArithmeticOverflow; the counters
\* never wrap (they stay equal to the true sums), and the failed instruction
\* creates and changes nothing and moves no funds.
C8_OverflowIsHardFailure ==
    /\ [](/\ subscription_config.total_revenue = payments
          /\ subscription_config.total_subscribers = Cardinality(subscribed)
          /\ \A user \in Keys : subscription[user].total_paid = paid_by[user])
    /\ [](subscription_config.exists =>
            \A user \in Keys, tier \in {1, 2, 3} :
                LET config == subscription_config
                    sub == subscription[user]
                    price == IF tier = 1 THEN config.basic_price
                             ELSE IF tier = 2 THEN config.pro_price
                             ELSE config.alpha_price
                    subscribed_ == subscribe_result(user, config.treasury, tier)
                    renewed == renew_subscription_result(user, user, config.treasury, tier)
                IN  /\ (subscribed_ \in {"Ok", "ArithmeticOverflow"}
                          /\ ( \/ config.total_revenue + price > MaxU64
                               \/ config.total_subscribers + 1 > MaxU64 ))
                       => subscribed_ = "ArithmeticOverflow"
                    /\ (renewed \in {"Ok", "ArithmeticOverflow"}
                          /\ ( \/ config.total_revenue + price > MaxU64
                               \/ sub.total_paid + price > MaxU64 ))
                       => renewed = "ArithmeticOverflow")
    /\ [][ last'.result = "ArithmeticOverflow" => UNCHANGED << accounts, now >> ]_vars

\* A renewal was just refused for overflow with total_revenue at the top of
\* the range, where the expiry (duration <= 0) cannot be what overflowed.
C8_Witness ==
    /\ last.op = "renew_subscription" /\ last.result = "ArithmeticOverflow"
    /\ subscription_config.subscription_duration <= 0
    /\ subscription_config.total_revenue = MaxU64

\* C9: Registry(A).total_reports is the number of SafetyReport accounts of
\* authority A, which is the number of A's successful submit_report calls;
\* a submit_report for a (token mint, A) that has a report fails with
\* AlreadyExists and changes nothing; update_report never changes a Registry.
C9_ReportCounter ==
    /\ [](\A authority \in Keys :
            /\ registry[authority].exists =>
                  /\ registry[authority].total_reports =
                        Cardinality({ mint \in Mints :
                                        safety_report[<< mint, authority >>].exists })
                  /\ registry[authority].total_reports = submissions[authority]
            /\ \A mint \in Mints :
                  safety_report[<< mint, authority >>].exists =>
                      /\ safety_report[<< mint, authority >>].authority = authority
                      /\ registry[authority].exists
                      /\ \A r \in ReportArgs :
                            submit_report_result(authority, authority, mint,
                                                 r[1], r[2], r[3], r[4])
                                = "AlreadyExists")
    /\ [][ (last'.op = "submit_report" /\ last'.result = "AlreadyExists")
             => UNCHANGED << accounts, now >> ]_vars
    /\ [][ last'.op = "update_report" => registry' = registry ]_vars

\* An authority has reported on every mint, and one more submit_report was
\* just refused.
C9_Witness ==
    /\ last.op = "submit_report" /\ last.result = "AlreadyExists"
    /\ \E authority \in Keys : registry[authority].total_reports = Cardinality(Mints)

\* Arguments beyond a limit of submit_report / update_report.
InvalidReportArgs ==
    { r \in ReportArgs : r[2] > 100 \/ r[3] \notin {0, 1, 2} \/ Len(r[1]) > 32 }

ValidationErrors == { "InvalidRiskScore", "InvalidRiskLevel", "ProtocolNameTooLong" }

\* C10 as stated: with arguments beyond a limit, submit_report (by an
\* authority that has a Registry) and update_report (of an existing report)
\* fail with a validation error.
C10_InvalidArgsAreValidationErrors ==
    \A authority \in Keys, mint \in Mints, r \in InvalidReportArgs :
        /\ registry[authority].exists =>
              submit_report_result(authority, authority, mint, r[1], r[2], r[3], r[4])
                  \in ValidationErrors
        /\ safety_report[<< mint, authority >>].exists =>
              update_report_result(authority, authority, mint, r[1], r[2], r[3], r[4])
                  \in ValidationErrors

\* C10, amended: with arguments beyond a limit, submit_report and
\* update_report fail and create or change nothing; the error is a validation
\* error when the account checks, which run before the handler, pass, and
\* otherwise theirs (submit_report: no Registry, or AlreadyExists for a pair
\* that has a report; update_report: no such report).  So every stored
\* SafetyReport has risk_score <= 100, risk_level <= 2 and a protocol_name of
\* at most 32 bytes.
C10_ReportValidation ==
    /\ [](\A authority \in Keys, mint \in Mints, r \in InvalidReportArgs :
            LET submitted == submit_report_result(authority, authority, mint,
                                                  r[1], r[2], r[3], r[4])
                updated == update_report_result(authority, authority, mint,
                                                r[1], r[2], r[3], r[4])
                reported == safety_report[<< mint, authority >>].exists
            IN  /\ IF ~registry[authority].exists THEN submitted = "NotFound"
                   ELSE IF reported THEN submitted = "AlreadyExists"
                   ELSE submitted \in ValidationErrors
                /\ IF reported THEN updated \in ValidationErrors
                   ELSE updated = "NotFound")
    /\ [](\A authority \in Keys, mint \in Mints :
            LET report == safety_report[<< mint, authority >>] IN
            report.exists =>
                /\ report.risk_score <= 100
                /\ report.risk_level <= 2
                /\ Len(report.protocol_name) <= 32)
    /\ [][ (last'.op \in {"submit_report", "update_report"} /\ last'.result # "Ok")
             => UNCHANGED << accounts, now >> ]_vars

\* An update_report with a risk_level beyond the limit was just refused.
C10_Witness ==
    /\ last.op = "update_report" /\ last.result = "InvalidRiskLevel"
    /\ \E authority \in Keys : registry[authority].total_reports > 0

\* C11: update_report by a caller who is not the stored authority of the
\* target SafetyReport fails with Unauthorized and leaves every field of the
\* report as it was.
C11_UpdateByOtherIsUnauthorized ==
    /\ [](\A caller \in Keys, account \in Keys, mint \in Mints, r \in ReportArgs :
            LET report == safety_report[<< mint, account >>] IN
            (report.exists /\ caller # report.authority) =>
                update_report_result(caller, account, mint, r[1], r[2], r[3], r[4])
                    = "Unauthorized")
    /\ [][ (last'.op = "update_report" /\ last'.result # "Ok")
             => safety_report' = safety_report ]_vars

\* C12: a second initialize_registry for an authority, and a second
\* initialize_subscription_config by any caller with any arguments, fail with
\* AlreadyExists and change nothing; total_reports is 0 right after the first
\* initialize_registry and is never reset; the config's admin, treasury and
\* subscription_duration stay what the first initialization made them.
C12_NoDoubleInitialization ==
    /\ [](\A authority \in Keys :
            registry[authority].exists =>
                initialize_registry_result(authority) = "AlreadyExists")
    /\ [](subscription_config.exists =>
            initialize_subscription_config_result = "AlreadyExists")
    /\ [][ ( /\ last'.op \in {"initialize_registry", "initialize_subscription_config"}
             /\ last'.result # "Ok" )
             => /\ last'.result = "AlreadyExists"
                /\ UNCHANGED << accounts, now >> ]_vars
    /\ [][ (last'.op = "initialize_registry" /\ last'.result = "Ok")
             => /\ ~registry[last'.signer].exists
                /\ registry'[last'.signer].total_reports = 0 ]_vars
    /\ [][ (last'.op = "initialize_subscription_config" /\ last'.result = "Ok")
             => /\ ~subscription_config.exists
                /\ subscription_config'.admin = last'.signer
                /\ subscription_config'.treasury = last'.treasury ]_vars
    /\ [][ \A authority \in Keys :
             registry[authority].exists =>
                 /\ registry'[authority].exists
                 /\ registry'[authority].authority = registry[authority].authority
                 /\ registry'[authority].total_reports
                        >= registry[authority].total_reports ]_vars
    /\ [][ subscription_config.exists =>
             /\ subscription_config'.exists
             /\ subscription_config'.admin = subscription_config.admin
             /\ subscription_config'.treasury = subscription_config.treasury
             /\ subscription_config'.subscription_duration
                    = subscription_config.subscription_duration ]_vars

\* Every authority has a Registry that counts reports, and one more
\* initialize_registry was just refused.
C12_Witness ==
    /\ last.op = "initialize_registry" /\ last.result = "AlreadyExists"
    /\ \A authority \in Keys : registry[authority].total_reports > 0

\* C13: a successful update_pricing changes nothing but basic_price,
\* pro_price and alpha_price: subscription_duration, total_subscribers,
\* total_revenue, admin and treasury, every Subscription and every balance
\* stay as they were.
C13_UpdatePricingFrame ==
    [][ (last'.op = "update_pricing" /\ last'.result = "Ok") =>
          /\ [subscription_config' EXCEPT
                  !.basic_price = subscription_config.basic_price,
                  !.pro_price = subscription_config.pro_price,
                  !.alpha_price = subscription_config.alpha_price]
                = subscription_config
          /\ subscription' = subscription
          /\ lamports' = lamports
          /\ UNCHANGED << registryVars, now >> ]_vars

\* The prices were just changed while every user holds a paid Subscription.
C13_Witness ==
    /\ last.op = "update_pricing" /\ last.result = "Ok"
    /\ subscription_config.basic_price = 1
    /\ subscription_config.total_revenue > 0
    /\ \A user \in Keys :
          subscription[user].exists /\ subscription[user].total_paid > 0

\* C14: a successful renew_subscription(user, tier) charges the price the
\* config holds for the requested tier when the renewal runs: that amount
\* moves from the user to the treasury and is added to total_paid and to
\* total_revenue, whatever was charged at subscription time and whatever tier
\* was held before.
C14_RenewalChargesCurrentPrice ==
    [][ (last'.op = "renew_subscription" /\ last'.result = "Ok") =>
          LET user == last'.signer
              treasury == last'.treasury
              tier == last'.tier
              config == subscription_config
              price == IF tier = 1 THEN config.basic_price
                       ELSE IF tier = 2 THEN config.pro_price
                       ELSE config.alpha_price
          IN  /\ subscription'[user].total_paid = subscription[user].total_paid + price
              /\ subscription_config'.total_revenue = config.total_revenue + price
              /\ \A key \in Keys :
                    lamports'[key] = lamports[key]
                        - (IF key = user THEN price ELSE 0)
                        + (IF key = treasury THEN price ELSE 0)
              /\ payments' = payments + price ]_vars

\* A first renewal (duration 1: expires_at = created_at + 2) was just charged
\* a positive price, and what the subscribe had charged is the price of no
\* tier now: the prices were updated in between.
C14_Witness ==
    /\ last.op = "renew_subscription" /\ last.result = "Ok"
    /\ subscription_config.subscription_duration = 1
    /\ LET sub == subscription[last.signer]
           config == subscription_config
           price == IF last.tier = 1 THEN config.basic_price
                    ELSE IF last.tier = 2 THEN config.pro_price
                    ELSE config.alpha_price
       IN  /\ sub.expires_at = sub.created_at + 2
           /\ price > 0
           /\ sub.total_paid - price
                 \notin {config.basic_price, config.pro_price, config.alpha_price}

\* C15 as stated: subscribe and renew_subscription (of an existing
\* Subscription, by its user), paying the configured treasury, with a tier
\* outside {1,2,3} fail with InvalidTier.
C15_BadTierIsInvalidTier ==
    subscription_config.exists =>
        \A user \in Keys, tier \in U8Samples \ {1, 2, 3} :
            LET treasury == subscription_config.treasury IN
            /\ subscribe_result(user, treasury, tier) = "InvalidTier"
            /\ subscription[user].exists =>
                  renew_subscription_result(user, user, treasury, tier) = "InvalidTier"

\* C15, amended: subscribe and renew_subscription with a tier outside
\* {1,2,3} fail and change nothing; the error is InvalidTier when the account
\* checks, which run before the handler, pass, and otherwise theirs
\* (subscribe: AlreadyExists for a user who has a Subscription;
\* renew_subscription: not found for a user who has none; both:
\* InvalidTreasury for a foreign treasury).  A successful
\* renew_subscription(user, t) stores tier t whatever tier was stored, so
\* every stored tier is in {1,2,3}.
C15_TierHandling ==
    /\ [](subscription_config.exists =>
            \A user \in Keys, treasury \in Keys, tier \in U8Samples \ {1, 2, 3} :
                /\ subscribe_result(user, treasury, tier) =
                      (IF subscription[user].exists THEN "AlreadyExists"
                       ELSE IF treasury # subscription_config.treasury
                            THEN "InvalidTreasury"
                       ELSE "InvalidTier")
                /\ renew_subscription_result(user, user, treasury, tier) =
                      (IF ~subscription[user].exists THEN "NotFound"
                       ELSE IF treasury # subscription_config.treasury
                            THEN "InvalidTreasury"
                       ELSE "InvalidTier"))
    /\ [][ last'.result = "InvalidTier" => UNCHANGED << accounts, now >> ]_vars
    /\ [][ (last'.op \in {"subscribe", "renew_subscription"} /\ last'.result = "Ok")
             => /\ last'.tier \in {1, 2, 3}
                /\ subscription'[last'.signer].tier = last'.tier ]_vars
    /\ [](\A user \in Keys :
            subscription[user].exists => subscription[user].tier \in {1, 2, 3})

\* A first renewal (duration 1: expires_at = created_at + 2) to tier 1 by a
\* user whose subscribe was charged 2 or more, the price of a higher tier in
\* either table: a downgrade.
C15_Witness ==
    /\ last.op = "renew_subscription" /\ last.result = "Ok" /\ last.tier = 1
    /\ subscription_config.subscription_duration = 1
    /\ LET sub == subscription[last.signer] IN
       /\ sub.tier = 1
       /\ sub.expires_at = sub.created_at + 2
       /\ sub.total_paid - subscription_config.basic_price >= 2

\* The sums renew_subscription(user, tier) computes stay in range.
RenewalInRange(user, tier) ==
    LET config == subscription_config
        sub == subscription[user]
        price == IF tier = 1 THEN config.basic_price
                 ELSE IF tier = 2 THEN config.pro_price
                 ELSE config.alpha_price
        base == IF now < sub.expires_at THEN sub.expires_at ELSE now
    IN  /\ base + config.subscription_duration \in MinI64..MaxI64
        /\ sub.total_paid + price <= MaxU64
        /\ config.total_revenue + price <= MaxU64

\* The user can pay the price of the tier.
CanPay(user, tier) ==
    LET config == subscription_config IN
    lamports[user] >= (IF tier = 1 THEN config.basic_price
                       ELSE IF tier = 2 THEN config.pro_price
                       ELSE config.alpha_price)

\* C16 as stated: a Subscription, once created, stays; renew_subscription of
\* a user without a Subscription fails and creates nothing; renew_subscription
\* of an existing Subscription by its user, with a valid tier, the configured
\* treasury and sufficient funds, succeeds, be the Subscription active or
\* expired.
C16_RenewalAlwaysEnabled ==
    /\ [](subscription_config.exists =>
            \A user \in Keys, tier \in {1, 2, 3} :
                (subscription[user].exists /\ CanPay(user, tier)) =>
                    renew_subscription_result(user, user, subscription_config.treasury,
                                              tier) = "Ok")
    /\ [](\A user \in Keys, treasury \in Keys, tier \in U8Samples :
            ~subscription[user].exists =>
                renew_subscription_result(user, user, treasury, tier) # "Ok")
    /\ [][ \A user \in Keys :
             subscription[user].exists => subscription'[user].exists ]_vars

\* C16, amended: as stated, except that the renewal fails with
\* ArithmeticOverflow, changing nothing, when one of its checked additions
\* (expires_at, total_paid, total_revenue) would leave its range; it succeeds
\* in every other case, be the Subscription active or expired.  A
\* Subscription is created by its user's subscribe only.
C16_SubscriptionStateMachine ==
    /\ [](subscription_config.exists =>
            \A user \in Keys, tier \in {1, 2, 3} :
                (subscription[user].exists /\ CanPay(user, tier)) =>
                    renew_subscription_result(user, user, subscription_config.treasury,
                                              tier)
                        = (IF RenewalInRange(user, tier)
                           THEN "Ok" ELSE "ArithmeticOverflow"))
    /\ [](\A user \in Keys, treasury \in Keys, tier \in U8Samples :
            ~subscription[user].exists =>
                renew_subscription_result(user, user, treasury, tier) = "NotFound")
    /\ [][ (last'.op = "renew_subscription" /\ last'.result # "Ok")
             => UNCHANGED << accounts, now >> ]_vars
    /\ [][ \A user \in Keys :
             /\ subscription[user].exists =>
                   /\ subscription'[user].exists
                   /\ subscription'[user].user = user
                   /\ subscription'[user].created_at = subscription[user].created_at
             /\ (~subscription[user].exists /\ subscription'[user].exists) =>
                   /\ last'.op = "subscribe" /\ last'.result = "Ok"
                   /\ last'.signer = user ]_vars

\* An expired Subscription was just renewed: with duration 1, expires_at =
\* now + 1 after a renewal means the renewal started from the clock, at or
\* after the earlier expiry.
C16_Witness ==
    /\ last.op = "renew_subscription" /\ last.result = "Ok"
    /\ subscription_config.subscription_duration = 1
    /\ now > 0
    /\ subscription[last.signer].created_at = 0
    /\ subscription[last.signer].expires_at = now + 1

\* C17: whatever configuration initialize_subscription_config accepted, a
\* successful renew_subscription leaves expires_at strictly greater than it
\* was, so the expires_at of a Subscription never decreases.
C17_RenewalExtends ==
    /\ [][ (last'.op = "renew_subscription" /\ last'.result = "Ok") =>
             subscription'[last'.signer].expires_at
                 > subscription[last'.signer].expires_at ]_vars
    /\ [][ \A user \in Keys :
             subscription[user].exists =>
                 subscription'[user].expires_at >= subscription[user].expires_at ]_vars

\* C18: whatever configuration initialize_subscription_config accepted, right
\* after a successful subscribe(user, t) or renew_subscription(user, t), the
\* clock not having moved, verify_subscription(required_tier = t) of the
\* user's Subscription succeeds.
C18_PaymentBuysAccess ==
    (last.op \in {"subscribe", "renew_subscription"} /\ last.result = "Ok") =>
        verify_subscription_result(last.signer, last.tier) = "Ok"

\* The sum of total_paid over the Subscriptions of the users in S.
RECURSIVE TotalPaid(_)
TotalPaid(S) ==
    IF S = {} THEN 0
    ELSE LET user == CHOOSE u \in S : TRUE
         IN  subscription[user].total_paid + TotalPaid(S \ {user})

\* C19: total_revenue is the sum of total_paid over all Subscriptions, and
\* the total_paid of each Subscription is the sum of the prices its user was
\* charged by the subscribe and by every renewal.
C19_PerUserAccounting ==
    /\ subscription_config.total_revenue
          = TotalPaid({ user \in Keys : subscription[user].exists })
    /\ \A user \in Keys :
          /\ subscription[user].total_paid = paid_by[user]
          /\ paid_by[user] > 0 => subscription[user].exists

\* Both users have paid, unequal amounts, and a paid renewal was just added.
C19_Witness ==
    /\ last.op = "renew_subscription" /\ last.result = "Ok"
    /\ \A user \in Keys : subscription[user].total_paid > 0
    /\ \E user \in Keys : subscription[user].total_paid = 2
    /\ subscription_config.total_revenue = 3

\* C20: an instruction signed by P changes (or creates) no Subscription whose
\* user is not P and no Registry or SafetyReport whose authority is not P; a
\* renew_subscription, update_report or submit_report by a caller other than
\* the owner of the account passed fails, and a failed instruction changes
\* nothing.
C20_Isolation ==
    /\ [][ \A key \in Keys :
             /\ subscription'[key] # subscription[key] =>
                   /\ last'.result = "Ok"
                   /\ subscription'[key].user = last'.signer
                   /\ subscription[key].exists => subscription[key].user = last'.signer
             /\ registry'[key] # registry[key] =>
                   /\ last'.result = "Ok"
                   /\ registry'[key].authority = last'.signer
                   /\ registry[key].exists => registry[key].authority = last'.signer
             /\ \A mint \in Mints :
                   LET r == << mint, key >> IN
                   safety_report'[r] # safety_report[r] =>
                       /\ last'.result = "Ok"
                       /\ safety_report'[r].authority = last'.signer
                       /\ safety_report[r].exists =>
                             safety_report[r].authority = last'.signer ]_vars
    /\ [](\A caller \in Keys, account \in Keys :
            /\ (subscription[account].exists /\ caller # subscription[account].user) =>
                  \A treasury \in Keys, tier \in U8Samples :
                      renew_subscription_result(caller, account, treasury, tier) # "Ok"
            /\ \A mint \in Mints, r \in ReportArgs :
                  /\ ( /\ safety_report[<< mint, account >>].exists
                       /\ caller # safety_report[<< mint, account >>].authority ) =>
                        update_report_result(caller, account, mint,
                                             r[1], r[2], r[3], r[4]) # "Ok"
                  /\ ( /\ registry[account].exists
                       /\ caller # registry[account].authority ) =>
                        submit_report_result(caller, account, mint,
                                             r[1], r[2], r[3], r[4]) # "Ok")
    /\ [][ last'.result # "Ok" => UNCHANGED << accounts, now >> ]_vars

\* Every user holds a Subscription, and a renewal of one of them by another
\* signer was just refused.
C20_Witness ==
    /\ last.op = "renew_subscription" /\ last.result = "ConstraintSeeds"
    /\ \A user \in Keys :
          subscription[user].exists /\ subscription[user].total_paid > 0

====
